---- MODULE Spec2Model ----
(***************************************************************************)
(* The Lit Protocol action provider of lit-agent as a state machine.       *)
(*                                                                         *)
(* The program state is the module-level client handle litNodeClient, the  *)
(* clients the LitNodeClient constructor has returned, the file system,    *)
(* and, for every handler invocation in flight, the await it is suspended  *)
(* at together with its locals and the external calls it has issued.       *)
(* An action is the synchronous run of a handler between two awaits; the   *)
(* outcome of an external call (SDK, wallet, fs) is chosen by the          *)
(* environment.                                                            *)
(*                                                                         *)
(* The repository holds two builds of the provider: the TypeScript one     *)
(* (lit-action-provider.ts) and the JavaScript one (src/unnamed/part_001). *)
(* The variable build says which of them the process has loaded.           *)
(*                                                                         *)
(* JavaScript strings are sequences of TLA+ strings: input strings are     *)
(* sequences of single characters, literals of the code are single chunks. *)
(***************************************************************************)
EXTENDS Integers, Sequences, FiniteSets, TLC

VARIABLES build, providers, litNodeClient, clients, ctorCalls, fs, inv, started

vars == <<build, providers, litNodeClient, clients, ctorCalls, fs, inv, started>>

(***************************************************************************)
(* Bounds of the model.                                                    *)
(***************************************************************************)
\* handler invocations started in one behaviour
MaxInvocations == 3
\* handler invocations started in one behaviour in which they may overlap
MaxOverlapping == 2

\* the invocations in flight at the same time: the races on the shared
\* client are races of two invocations
Slots == {1, 2}

(***************************************************************************)
(* JavaScript values of the inputs: undefined, a number, a string.         *)
(***************************************************************************)
Undef == [t |-> "undefined", n |-> 0, s |-> <<>>]

Num(k) == [t |-> "number", n |-> k, s |-> <<>>]

Str(cs) == [t |-> "string", n |-> 0, s |-> cs]

\* ToBoolean: undefined, 0 and "" are falsy
Truthy(v) ==
  CASE v.t = "undefined" -> FALSE
    [] v.t = "number" -> v.n # 0
    [] v.t = "string" -> v.s # <<>>

\* a || b
OrElse(a, b) == IF Truthy(a) THEN a ELSE b

\* n copies of the character c
Rep(c, n) == [i \in 1..n |-> c]

Digits == {"0", "1", "2", "3", "4", "5", "6", "7", "8", "9"}

HexDigits == Digits \cup {"a", "b", "c", "d", "e", "f", "A", "B", "C", "D", "E", "F"}

Letters == {"a", "b", "c", "d", "e", "f", "h", "p", "r", "s", "t", "A", "B", "C", "D", "E", "F"}

\* String.prototype.toLowerCase on one character
LowerChar(c) ==
  CASE c = "A" -> "a" [] c = "B" -> "b" [] c = "C" -> "c"
    [] c = "D" -> "d" [] c = "E" -> "e" [] c = "F" -> "f"
    [] c = "S" -> "s" [] c = "X" -> "x"
    [] OTHER -> c

toLowerCase(s) == [i \in 1..Len(s) |-> LowerChar(s[i])]

(***************************************************************************)
(* The zod schemas (lit/schemas.ts).                                       *)
(***************************************************************************)
\* number of hex digits of an Ethereum address
AddressHexLen == 40

\* /^0x[a-fA-F0-9]{40}$/
MatchesAddress(s) ==
  /\ Len(s) = AddressHexLen + 2
  /\ s[1] = "0"
  /\ s[2] = "x"
  /\ \A i \in 3..Len(s) : s[i] \in HexDigits

\* /^\d*\.?\d+$/
MatchesDecimal(s) ==
  \E k \in 0..Len(s) :
    /\ \A i \in 1..k : s[i] \in Digits
    /\ \/ /\ k < Len(s)
          /\ \A i \in (k + 1)..Len(s) : s[i] \in Digits
       \/ /\ k + 1 < Len(s)
          /\ s[k + 1] = "."
          /\ \A i \in (k + 2)..Len(s) : s[i] \in Digits

\* /^\d+$/
MatchesChainId(s) == Len(s) >= 1 /\ \A i \in 1..Len(s) : s[i] \in Digits

\* z.string().url(): new URL(s) succeeds; an absolute URL starts with a
\* scheme (a letter, then letters, digits, + - .) followed by ":" and more
IsUrl(s) ==
  \E k \in 2..Len(s) :
    /\ s[k] = ":"
    /\ k < Len(s)
    /\ s[1] \in Letters
    /\ \A i \in 2..(k - 1) : s[i] \in Letters \cup Digits \cup {"+", "-", "."}

IsStr(v) == v.t = "string"

IsOptStr(v) == v.t \in {"string", "undefined"}

HelloLitSchema(input) == input.magicNumber.t \in {"number", "undefined"}

EncryptEnvSchema(input) ==
  /\ IsOptStr(input.envFilePath)
  /\ IsOptStr(input.outputPath)
  /\ IsOptStr(input.walletAddress)

DecryptEnvSchema(input) ==
  /\ IsOptStr(input.encryptedFilePath)
  /\ IsOptStr(input.outputPath)

LitErc20TransferSchema(input) ==
  /\ IsStr(input.pkpEthAddress) /\ MatchesAddress(input.pkpEthAddress.s)
  /\ IsStr(input.tokenAddress) /\ MatchesAddress(input.tokenAddress.s)
  /\ IsStr(input.recipientAddress) /\ MatchesAddress(input.recipientAddress.s)
  /\ IsStr(input.amount) /\ MatchesDecimal(input.amount.s)
  /\ IsStr(input.chainId) /\ MatchesChainId(input.chainId.s)
  /\ IsStr(input.rpcUrl) /\ IsUrl(input.rpcUrl.s)

LitEcdsaSignSchema(input) ==
  /\ IsStr(input.pkpEthAddress) /\ MatchesAddress(input.pkpEthAddress.s)
  /\ IsStr(input.message)

LitUniswapSwapSchema(input) ==
  /\ IsStr(input.pkpEthAddress) /\ MatchesAddress(input.pkpEthAddress.s)
  /\ IsStr(input.tokenIn) /\ MatchesAddress(input.tokenIn.s)
  /\ IsStr(input.tokenOut) /\ MatchesAddress(input.tokenOut.s)
  /\ IsStr(input.amountIn) /\ MatchesDecimal(input.amountIn.s)
  /\ IsStr(input.chainId) /\ MatchesChainId(input.chainId.s)
  /\ IsStr(input.rpcUrl) /\ IsUrl(input.rpcUrl.s)

\* the schema an action declares as its inputSchema
SchemaAccepts(action, input) ==
  CASE action = "lit-hello" -> HelloLitSchema(input)
    [] action = "lit-encrypt-env" -> EncryptEnvSchema(input)
    [] action = "lit-decrypt-env" -> DecryptEnvSchema(input)
    [] action = "lit-erc20-transfer" -> LitErc20TransferSchema(input)
    [] action = "lit-ecdsa-sign" -> LitEcdsaSignSchema(input)
    [] action = "lit-uniswap-swap" -> LitUniswapSwapSchema(input)

\* .optional().default(d): the default replaces undefined only
Default(v, d) == IF v.t = "undefined" THEN d ELSE v

DotEnv == <<".", "e", "n", "v">>

DotEnvEncrypted == DotEnv \o <<".", "e", "n", "c", "r", "y", "p", "t", "e", "d">>

\* Schema.parse(input) of an accepted input: the input with its defaults
SchemaOutput(action, input) ==
  CASE action = "lit-encrypt-env" ->
         [input EXCEPT !.envFilePath = Default(@, Str(DotEnv)),
                       !.outputPath = Default(@, Str(DotEnvEncrypted))]
    [] action = "lit-decrypt-env" ->
         [input EXCEPT !.encryptedFilePath = Default(@, Str(DotEnvEncrypted)),
                       !.outputPath = Default(@, Str(DotEnv))]
    [] OTHER -> input

(***************************************************************************)
(* lit/constants.ts                                                        *)
(***************************************************************************)
LitNetworks == {"datil-dev", "datil-test", "datil"}

\* IPFS_CIDS[network][type]
IPFS_CIDS(network, type) ==
  CASE network = "datil-dev" /\ type = "erc20Transfer" -> "QmUPnnuz8E3wKYG7bCxqnjjhV9anE9uMxHXY4fTv7Z5Y6A"
    [] network = "datil-dev" /\ type = "ecdsaSign" -> "QmZJovPgBBBmuLKRtdVwdV47opNSmLiV2AZCNTtWzeog1Q"
    [] network = "datil-dev" /\ type = "uniswapSwap" -> "QmQPUjXmFiAe363TYAiv3DPciyTDSFLym2S9FR1d78ZRWs"
    [] network = "datil-test" /\ type = "erc20Transfer" -> "QmRcwjz5EpUaABPMwhgYwsDsy1noYNYkhr6nC8JqWUPEoy"
    [] network = "datil-test" /\ type = "ecdsaSign" -> "QmZbVUwomfUfCa38ia69LrSfH1k8JNK3BHeSUKm5tGMWgv"
    [] network = "datil-test" /\ type = "uniswapSwap" -> "QmaLAZCJEk5B4BW962pjENxCDHvwGtPptCamhckk9GJxJe"
    [] network = "datil" /\ type = "erc20Transfer" -> "QmQ1k3ZzmoPDukAphQ353WJ73XaNFnhmztr1v2hfTprW3V"
    [] network = "datil" /\ type = "ecdsaSign" -> "QmPjxnXWSPYGYR2gZyiZHpRE7dMAeb7K181R4Cfvkw5KM8"
    [] network = "datil" /\ type = "uniswapSwap" -> "QmStLtPzAvyUAQXbkUorZUJ7mgst6tU4xhJoFYHMZp9etH"

\* the inline Lit Action of lit-hello
HELLO_LIT_CODE == "HELLO_LIT_CODE"

(***************************************************************************)
(* Thrown values and the result envelope.                                  *)
(***************************************************************************)
\* new Error(message), or an instance of a subclass
Err(message) == [isError |-> TRUE, message |-> message]

\* a thrown value that is not an Error instance
NonError == [isError |-> FALSE, message |-> <<>>]

\* error instanceof Error ? error.message : "Unknown error"
ErrorText(e) == IF e.isError THEN e.message ELSE <<"Unknown error">>

Success(result) == [success |-> TRUE, result |-> result]

Failure(error) == [success |-> FALSE, error |-> error]

\* what the environment can make an external call throw
Thrown(op) == {Err(<<op, " failed">>), NonError}

(***************************************************************************)
(* lit/policies.ts                                                         *)
(***************************************************************************)
\* z.array(ethereumAddressSchema)
AddressArrayOk(as) ==
  \A i \in 1..Len(as) : IsStr(as[i]) /\ MatchesAddress(as[i].s)

\* position of the first "." of s, or Len(s) + 1
DotPos(s) ==
  IF \E i \in 1..Len(s) : s[i] = "."
  THEN CHOOSE i \in 1..Len(s) : s[i] = "." /\ \A j \in 1..(i - 1) : s[j] # "."
  ELSE Len(s) + 1

\* a decimal numeral without its leading zeros ("0" for zero)
RECURSIVE StripZeros(_)
StripZeros(s) ==
  IF Len(s) > 1 /\ s[1] = "0" THEN StripZeros(Tail(s)) ELSE s

\* ethers.parseUnits accepts /^(-?)([0-9]*)\.?([0-9]*)$/ with a digit in it
\* and at most `decimals` significant fraction digits
ParseUnitsOk(s, decimals) ==
  LET d == DotPos(s) IN
  /\ \A i \in 1..Len(s) : i # d => s[i] \in Digits
  /\ \E i \in 1..Len(s) : s[i] \in Digits
  /\ \A i \in (d + decimals + 1)..Len(s) : s[i] = "0"

\* ethers.parseUnits(s, decimals).toString(): the numeral of s * 10^decimals
ParseUnits(s, decimals) ==
  LET d == DotPos(s)
      whole == SubSeq(s, 1, d - 1)
      frac == SubSeq(s, d + 1, Len(s))
      padded == [i \in 1..decimals |-> IF i <= Len(frac) THEN frac[i] ELSE "0"]
  IN StripZeros((IF whole = <<>> THEN <<"0">> ELSE whole) \o padded)

\* the decimals the ERC20 handler assumes: erc20Decimals: "18"
Erc20Decimals == 18

\* abiCoder.encode of a uint256 given as a string: BigInt(s) must parse
Uint256Ok(s) == Len(s) >= 1 /\ \A i \in 1..Len(s) : s[i] \in Digits

\* ERC20TransferPolicy.encode(policy): "ok" and the encoded tuple, or "throw"
ERC20TransferPolicyEncode(policy) ==
  IF /\ IsStr(policy.maxAmount)
     /\ AddressArrayOk(policy.allowedTokens)
     /\ AddressArrayOk(policy.allowedRecipients)
     /\ ParseUnitsOk(policy.maxAmount.s, policy.erc20Decimals)
  THEN [status |-> "ok",
        value |-> [type |-> "ERC20Transfer",
                   erc20Decimals |-> policy.erc20Decimals,
                   maxAmount |-> ParseUnits(policy.maxAmount.s, policy.erc20Decimals),
                   allowedTokens |-> policy.allowedTokens,
                   allowedRecipients |-> policy.allowedRecipients]]
  ELSE [status |-> "throw", value |-> Err(<<"policy encoding failed">>)]

\* SignEcdsaPolicy.encode(policy)
SignEcdsaPolicyEncode(policy) ==
  IF \A i \in 1..Len(policy.allowedPrefixes) : IsStr(policy.allowedPrefixes[i])
  THEN [status |-> "ok",
        value |-> [type |-> "SignEcdsa", allowedPrefixes |-> policy.allowedPrefixes]]
  ELSE [status |-> "throw", value |-> Err(<<"policy encoding failed">>)]

\* UniswapSwapPolicy.encode(policy): maxAmount goes into the uint256 as it is
UniswapSwapPolicyEncode(policy) ==
  IF /\ IsStr(policy.maxAmount)
     /\ AddressArrayOk(policy.allowedTokens)
     /\ Uint256Ok(policy.maxAmount.s)
  THEN [status |-> "ok",
        value |-> [type |-> "UniswapSwap",
                   maxAmount |-> StripZeros(policy.maxAmount.s),
                   allowedTokens |-> policy.allowedTokens]]
  ELSE [status |-> "throw", value |-> Err(<<"policy encoding failed">>)]

(***************************************************************************)
(* Providers: litActionProvider(config).                                   *)
(***************************************************************************)
\* a configuration field is a value, "undefined" (given as undefined, as
\* process.env.LIT_NETWORK is when unset) or "absent" (not given)
ProviderConfigs ==
  << [litNetwork |-> "absent", debug |-> "absent"],
     [litNetwork |-> "datil-test", debug |-> "true"],
     [litNetwork |-> "undefined", debug |-> "absent"] >>

\* { litNetwork: "datil-dev", debug: false, ...config }
FinalConfig(config) ==
  [litNetwork |-> IF config.litNetwork = "absent" THEN "datil-dev" ELSE config.litNetwork,
   debug |-> IF config.debug = "absent" THEN "false" ELSE config.debug]

\* the provider objects of the process, each with its finalConfig
Providers == [i \in 1..Len(ProviderConfigs) |-> FinalConfig(ProviderConfigs[i])]

\* config.litNetwork || "datil-dev"
NetworkOrDefault(config) ==
  IF config.litNetwork = "undefined" THEN "datil-dev" ELSE config.litNetwork

\* config.debug || false
DebugOrDefault(config) ==
  IF config.debug \in {"undefined", "false"} THEN "false" ELSE config.debug

\* the default network written back into the configuration
ConfigDefaulted(finalConfig) ==
  [finalConfig EXCEPT !.litNetwork = NetworkOrDefault(finalConfig)]

\* a handler reads finalConfig (finalConfig.litNetwork || "datil-dev",
\* network: finalConfig.litNetwork) and never assigns to it: the
\* configuration after a handler has read it
ConfigRead(finalConfig) == finalConfig

(***************************************************************************)
(* The shared client: let litNodeClient = null, and getLitClient.          *)
(* A client handle is its index in clients; 0 is null.                     *)
(***************************************************************************)
Null == 0

ModuleState == [litNodeClient |-> litNodeClient, clients |-> clients, ctorCalls |-> ctorCalls]

\* the JavaScript build rethrows a failure of the constructor or of connect()
\* as new Error(`Lit Protocol connection failed: ${error.message}`)
WrapConnectError(bld, e) ==
  IF bld = "js"
  THEN Err(<<"Lit Protocol connection failed: ">>
           \o (IF e.isError THEN e.message ELSE <<"undefined">>))
  ELSE e

\* the new client kept in a local and not yet assigned to the shared handle
\* when connect() is awaited
AssignNewClientLate(g, config) ==
  [g EXCEPT !.clients = Append(@, [litNetwork |-> NetworkOrDefault(config),
                                   debug |-> DebugOrDefault(config),
                                   conn |-> "new"]),
            !.ctorCalls = @ + 1]

\* litNodeClient = new LitJsSdk.LitNodeClient({...}): the new client is
\* assigned to the shared handle before connect() is awaited
AssignNewClient(g, config) ==
  [g EXCEPT !.clients = Append(@, [litNetwork |-> NetworkOrDefault(config),
                                   debug |-> DebugOrDefault(config),
                                   conn |-> "new"]),
            !.litNodeClient = Len(g.clients) + 1,
            !.ctorCalls = @ + 1]

\* await litNodeClient.connect(): connect() is called on the shared client
CallConnect(g, h) == [g EXCEPT !.clients[h].conn = "pending"]

\* getLitClient without its if (!litNodeClient) test
GetLitClientAlwaysNew(g, config, bld) ==
  {[kind |-> "await", g |-> CallConnect(AssignNewClient(g, config), Len(g.clients) + 1),
    value |-> Len(g.clients) + 1, err |-> NonError]}
  \cup {[kind |-> "throw", g |-> [g EXCEPT !.ctorCalls = @ + 1],
         value |-> Null, err |-> WrapConnectError(bld, e)] :
        e \in Thrown("new LitNodeClient")}

\* getLitClient(config), run to its first await or to its end: it returns the
\* shared client, or awaits connect() on a client it has just constructed,
\* or throws what the constructor threw
GetLitClient(g, config, bld) ==
  IF g.litNodeClient # Null
  THEN {[kind |-> "return", g |-> g, value |-> g.litNodeClient, err |-> NonError]}
  ELSE {[kind |-> "await", g |-> CallConnect(AssignNewClient(g, config), Len(g.clients) + 1),
         value |-> Len(g.clients) + 1, err |-> NonError]}
       \cup {[kind |-> "throw", g |-> [g EXCEPT !.ctorCalls = @ + 1],
              value |-> Null, err |-> WrapConnectError(bld, e)] :
             e \in Thrown("new LitNodeClient")}

\* a failed connect() that also clears the shared handle
ConnectSettledResetOnFailure(g, h, ok) ==
  [g EXCEPT !.clients[h].conn = IF ok THEN "connected" ELSE "failed",
            !.litNodeClient = IF ok THEN @ ELSE Null]

\* the state of the module after connect() on client h has settled
ConnectSettled(g, h, ok) ==
  [g EXCEPT !.clients[h].conn = IF ok THEN "connected" ELSE "failed"]

\* getLitClient after its await: return litNodeClient
ReturnLitClient(g) == g.litNodeClient

(***************************************************************************)
(* Handler invocations.                                                    *)
(***************************************************************************)
Actions ==
  {"lit-hello", "lit-encrypt-env", "lit-decrypt-env",
   "lit-erc20-transfer", "lit-ecdsa-sign", "lit-uniswap-swap"}

\* the actions whose handler calls getSessionSigs
SessionActions == Actions \ {"lit-encrypt-env"}

FileActions == {"lit-encrypt-env", "lit-decrypt-env"}

NoRet == [success |-> FALSE]

NoData == [kind |-> "none"]

\* an invocation slot that runs no handler
Idle ==
  [pc |-> "idle", action |-> "none", provider |-> 0, raw |-> NoData,
   input |-> NoData, awaitIn |-> "none", pending |-> Null, client |-> Null,
   sclient |-> Null, walletAddress |-> <<>>, sessionSigs |-> "none",
   data |-> NoData, res |-> NoData, failed |-> "none", calls |-> <<>>, ret |-> NoRet]

\* an external call: the operation, the client it is a method of (Null for
\* the wallet, the file system and the encryption module's own arguments)
Call(op, on, arg) == [op |-> op, on |-> on, arg |-> arg]

Issue(r, pc, call) == [r EXCEPT !.pc = pc, !.calls = Append(@, call)]

Finish(r, envelope) == [r EXCEPT !.pc = "done", !.ret = envelope]

\* the catch block of each handler
Catch(action, e) ==
  CASE action = "lit-hello" ->
         Failure(<<"Lit Protocol hello failed: ">> \o ErrorText(e))
    [] action = "lit-encrypt-env" ->
         Failure(<<"Encryption failed: ">> \o ErrorText(e))
    [] action = "lit-decrypt-env" ->
         Failure(<<"Decryption failed: ">> \o ErrorText(e)
                 \o <<". ", "Make sure you have permission to decrypt this file.">>)
    [] action = "lit-erc20-transfer" ->
         Failure(<<"ERC20 transfer failed: ">> \o ErrorText(e))
    [] action = "lit-ecdsa-sign" ->
         Failure(<<"ECDSA sign failed: ">> \o ErrorText(e))
    [] action = "lit-uniswap-swap" ->
         Failure(<<"Uniswap swap failed: ">> \o ErrorText(e))

\* a throw that no try block encloses: the handler's promise rejects
ThrowUncaught(r, op, e) == [r EXCEPT !.pc = "rejected", !.failed = op]

\* try { ... } catch (error) { return { success: false, error: ... } }: the
\* whole body of every handler is inside its try block; `op` is the step
\* that threw
Throw(r, op, e) == Finish([r EXCEPT !.failed = op], Catch(r.action, e))

\* a method call on a client variable that holds null throws a TypeError
NullCall == Err(<<"Cannot read properties of null">>)

(***************************************************************************)
(* The environment: wallet, file system, SDK results.                      *)
(***************************************************************************)
\* what walletProvider.getAddress() resolves to (a checksummed address)
WalletAddr == <<"0", "x">> \o Rep("A", 20) \o Rep("1", 20)

AddrA == <<"0", "x">> \o Rep("a", AddressHexLen)

AddrB == <<"0", "x">> \o Rep("b", AddressHexLen)

AddrMixed == <<"0", "x">> \o Rep("B", 20) \o Rep("c", 20)

\* too short for an address
AddrShort == <<"0", "x", "1", "2", "3">>

\* the files the model follows; every other path does not exist
FileX == <<"x">>

Files == {DotEnv, DotEnvEncrypted, FileX}

Missing == [kind |-> "missing", s |-> <<>>, fields |-> <<>>]

Text(s) == [kind |-> "text", s |-> s, fields |-> <<>>]

\* a file holding the JSON text of an object, kept as the object's members
JsonFile(fields) == [kind |-> "json", s |-> <<>>, fields |-> fields]

EnvText == <<"S", "=", "1">>

FileExists(f, path) ==
  /\ path.t = "string"
  /\ path.s \in DOMAIN f
  /\ f[path.s].kind # "missing"

\* fs.writeFile can create the file
Writable(path) == path.t = "string" /\ path.s \in Files

\* a member of an object; def is FALSE for a member whose value is undefined
Member(k, def, v) == [k |-> k, def |-> def, v |-> v]

\* JSON.stringify(object, null, 2): members whose value is undefined are left out
JSONstringifyPretty(obj) == JsonFile(SelectSeq(obj, LAMBDA m : m.def))

HasMember(obj, k) == \E i \in 1..Len(obj) : obj[i].k = k

\* object[k] of an object that has the member k
Get(obj, k) == obj[CHOOSE i \in 1..Len(obj) : obj[i].k = k].v

\* JSON.parse(text) succeeds on the JSON text of an object
JSONparseOk(content) == content.kind = "json"

\* the string readFile(path, "utf-8") resolves to: the text of the file, and
\* for a file JSON.stringify wrote its braces and keys
FileText(content) ==
  IF content.kind = "json"
  THEN <<"{">> \o [i \in 1..Len(content.fields) |-> content.fields[i].k] \o <<"}">>
  ELSE content.s

JSONparse(content) == content.fields

\* JSON.stringify of a string: the quoted string
JSONstringifyString(s) ==
  <<"\"">> \o [i \in 1..Len(s) |-> IF s[i] = "\"" THEN "\\\"" ELSE s[i]] \o <<"\"">>

\* JSON.stringify of the object executeJs resolved to
JSONstringifyRes(res) ==
  <<"{">>
  \o (IF res.response.t = "string"
      THEN <<"\"response\":">> \o JSONstringifyString(res.response.s) \o <<",">>
      ELSE <<>>)
  \o <<"\"logs\":">> \o JSONstringifyString(res.logs.s)
  \o <<"}">>

\* JSON.stringify(res)
ResultOfWhole(res) == JSONstringifyRes(res)

\* JSON.stringify(res.response || res)
ResultOf(res) ==
  IF Truthy(res.response)
  THEN JSONstringifyString(res.response.s)
  ELSE JSONstringifyRes(res)

\* what client.executeJs can resolve to
ExecResults ==
  {[response |-> rsp, logs |-> Str(<<"l">>)] :
     rsp \in {Str(<<"o", "k">>), Str(<<>>), Undef}}

\* encryptString of the SDK: ciphertext and hash of the data
SdkEncrypt(data) ==
  [ciphertext |-> Str(<<"enc:">> \o data), dataToEncryptHash |-> Str(<<"sha:">> \o data)]

\* decryptToString of the SDK inverts encryptString
SdkDecryptOk(ciphertext) ==
  ciphertext.t = "string" /\ Len(ciphertext.s) >= 1 /\ ciphertext.s[1] = "enc:"

SdkDecrypt(ciphertext) == Tail(ciphertext.s)

(***************************************************************************)
(* The inputs the handlers are invoked with.                               *)
(***************************************************************************)
HelloInputs ==
  {[magicNumber |-> v] : v \in {Undef, Num(0), Num(7), Str(<<"7">>)}}

EncryptInput(e, o, w) == [envFilePath |-> e, outputPath |-> o, walletAddress |-> w]

EncryptInputs ==
  {EncryptInput(Undef, Undef, Undef),
   EncryptInput(Str(<<>>), Undef, Undef),
   EncryptInput(Str(FileX), Undef, Undef),
   EncryptInput(Undef, Str(<<>>), Undef),
   EncryptInput(Undef, Str(FileX), Str(AddrMixed)),
   EncryptInput(Undef, Undef, Num(7)),
   EncryptInput(Undef, Undef, Str(<<>>))}

DecryptInput(e, o) == [encryptedFilePath |-> e, outputPath |-> o]

DecryptInputs ==
  {DecryptInput(Undef, Undef),
   DecryptInput(Str(<<>>), Undef),
   DecryptInput(Str(FileX), Str(FileX)),
   DecryptInput(Undef, Str(<<>>))}

Url == <<"h", "t", "t", "p", ":", "/", "/", "r">>

Erc20Input(pkp, token, amount, chain) ==
  [pkpEthAddress |-> pkp, tokenAddress |-> token, recipientAddress |-> Str(AddrB),
   amount |-> amount, chainId |-> chain, rpcUrl |-> Str(Url)]

Erc20Inputs ==
  {Erc20Input(Str(AddrA), Str(AddrA), Str(<<"1">>), Str(<<"1">>)),
   Erc20Input(Str(AddrA), Str(AddrA), Str(<<"1", ".", "5">>), Str(<<"1">>)),
   Erc20Input(Str(AddrA), Str(AddrA), Str(<<".", "5">>), Str(<<"1">>)),
   Erc20Input(Str(AddrShort), Str(AddrA), Str(<<"1">>), Str(<<"1">>)),
   Erc20Input(Str(AddrA), Str(AddrShort), Str(<<"1">>), Str(<<"1">>)),
   Erc20Input(Str(AddrA), Str(AddrA), Str(<<"1", "e", "3">>), Str(<<"1">>)),
   Erc20Input(Str(AddrA), Str(AddrA), Str(<<"1">>), Str(<<"0", "x", "1">>))}

SignInput(pkp, message) == [pkpEthAddress |-> pkp, message |-> message]

SignInputs ==
  {SignInput(Str(AddrA), Str(<<"h", "i">>)),
   SignInput(Str(AddrShort), Str(<<"h", "i">>)),
   SignInput(Str(AddrA), Num(7))}

SwapInput(pkp, tokenIn, amountIn) ==
  [pkpEthAddress |-> pkp, tokenIn |-> tokenIn, tokenOut |-> Str(AddrB),
   amountIn |-> amountIn, chainId |-> Str(<<"1">>), rpcUrl |-> Str(Url)]

SwapInputs ==
  {SwapInput(Str(AddrA), Str(AddrA), Str(<<"1">>)),
   SwapInput(Str(AddrA), Str(AddrA), Str(<<"1", ".", "5">>)),
   SwapInput(Str(AddrA), Str(AddrShort), Str(<<"1">>)),
   SwapInput(Str(AddrShort), Str(AddrA), Str(<<"1">>))}

Inputs(action) ==
  CASE action = "lit-hello" -> HelloInputs
    [] action = "lit-encrypt-env" -> EncryptInputs
    [] action = "lit-decrypt-env" -> DecryptInputs
    [] action = "lit-erc20-transfer" -> Erc20Inputs
    [] action = "lit-ecdsa-sign" -> SignInputs
    [] action = "lit-uniswap-swap" -> SwapInputs

(***************************************************************************)
(* The handlers of litActionProvider, cut at their awaits.                 *)
(***************************************************************************)
ZodError == Err(<<"zod issues">>)

\* the handler up to its first external call: the JavaScript build parses
\* the input of every action but lit-hello, the TypeScript build parses none
Entered(bld, action, prov, input) ==
  LET r0 == [Idle EXCEPT !.pc = "run", !.action = action, !.provider = prov,
                         !.raw = input, !.input = input]
  IN IF bld = "js" /\ action # "lit-hello"
     THEN IF SchemaAccepts(action, input)
          THEN [r0 EXCEPT !.input = SchemaOutput(action, input)]
          ELSE Throw(r0, "parse", ZodError)
     ELSE r0

\* the path fs.readFile is called with
ReadPath(bld, action, input) ==
  IF action = "lit-encrypt-env"
  THEN IF bld = "ts" THEN OrElse(input.envFilePath, Str(DotEnv)) ELSE input.envFilePath
  ELSE IF bld = "ts" THEN OrElse(input.encryptedFilePath, Str(DotEnvEncrypted))
       ELSE input.encryptedFilePath

\* the path fs.writeFile is called with
WritePath(bld, action, input) ==
  IF action = "lit-encrypt-env"
  THEN IF bld = "ts" THEN OrElse(input.outputPath, Str(DotEnvEncrypted)) ELSE input.outputPath
  ELSE IF bld = "ts" THEN OrElse(input.outputPath, Str(DotEnv)) ELSE input.outputPath

\* a handler that creates its output file before it reads its input
IssueReadFileAfterCreate(bld, r) ==
  Issue([r EXCEPT !.calls =
           Append(@, Call("writeFile", Null,
                          [path |-> WritePath(bld, r.action, r.input),
                           content |-> Text(<<>>)]))],
        "readFile",
        Call("readFile", Null, [path |-> ReadPath(bld, r.action, r.input), encoding |-> "utf-8"]))

IssueReadFile(bld, r) ==
  Issue(r, "readFile",
        Call("readFile", Null, [path |-> ReadPath(bld, r.action, r.input), encoding |-> "utf-8"]))

\* session signatures requested before the wallet address is read
IssueGetSessionSigsFirst(r) ==
  Issue(r, "getSessionSigs",
        Call("getSessionSigs", r.sclient, [chain |-> "ethereum", walletAddress |-> r.walletAddress]))

IssueGetAddress(r) == Issue(r, "getAddress", Call("getAddress", Null, NoData))

\* getSessionSigs entered with the outcome o of its getLitClient call
EnterSessionSigs(r, o) ==
  CASE o.kind = "throw" ->
         Throw([r EXCEPT !.calls = Append(@, Call("new LitNodeClient", Null, NoData))],
               "new LitNodeClient", o.err)
    [] o.kind = "await" ->
         Issue([r EXCEPT !.calls = Append(@, Call("new LitNodeClient", Null, NoData)),
                         !.awaitIn = "getSessionSigs", !.pending = o.value],
               "connect", Call("connect", o.value, NoData))
    [] o.kind = "return" -> IssueGetAddress([r EXCEPT !.sclient = o.value])

\* the handler once its own client variable is set
WithClient(r, o2) ==
  IF r.action \in SessionActions THEN EnterSessionSigs(r, o2) ELSE IssueGetAddress(r)

\* const client = await getLitClient(finalConfig) with the outcome o1 of the
\* call, followed, when it returned at once, by the handler's next step
StartClient(r, o1, o2) ==
  CASE o1.kind = "throw" ->
         Throw([r EXCEPT !.calls = Append(@, Call("new LitNodeClient", Null, NoData))],
               "new LitNodeClient", o1.err)
    [] o1.kind = "await" ->
         Issue([r EXCEPT !.calls = Append(@, Call("new LitNodeClient", Null, NoData)),
                         !.awaitIn = "handler", !.pending = o1.value],
               "connect", Call("connect", o1.value, NoData))
    [] o1.kind = "return" -> WithClient([r EXCEPT !.client = o1.value], o2)

\* the outcomes of the getLitClient call inside getSessionSigs, when the
\* handler reaches it in the same run
SecondGet(r, o1, bld) ==
  IF r.action \in SessionActions /\ o1.kind = "return"
  THEN GetLitClient(o1.g, providers[r.provider], bld)
  ELSE {o1}

\* client.getSessionSigs({...}) on the client getSessionSigs holds
IssueGetSessionSigs(r) ==
  IF r.sclient = Null
  THEN Throw(r, "null client", NullCall)
  ELSE Issue(r, "getSessionSigs",
             Call("getSessionSigs", r.sclient, [chain |-> "ethereum", walletAddress |-> r.walletAddress]))

\* jsParams of lit-hello
HelloJsParams(input) == [magicNumber |-> OrElse(input.magicNumber, Num(42))]

\* the type of an action in IPFS_CIDS
CidType(action) ==
  CASE action = "lit-erc20-transfer" -> "erc20Transfer"
    [] action = "lit-ecdsa-sign" -> "ecdsaSign"
    [] action = "lit-uniswap-swap" -> "uniswapSwap"

\* the CID of the default network whatever the provider is configured with
PkpIpfsCidOfDefault(action, finalConfig) == IPFS_CIDS("datil-dev", CidType(action))

\* const network = finalConfig.litNetwork || "datil-dev"; IPFS_CIDS[network].<type>
PkpIpfsCid(action, finalConfig) == IPFS_CIDS(NetworkOrDefault(finalConfig), CidType(action))

\* the policy with the token listed where the recipient belongs
PkpPolicyTokenAsRecipient(action, input) ==
  CASE action = "lit-erc20-transfer" ->
         [type |-> "ERC20Transfer", erc20Decimals |-> Erc20Decimals,
          maxAmount |-> input.amount,
          allowedTokens |-> <<input.tokenAddress>>,
          allowedRecipients |-> <<input.tokenAddress>>]
    [] action = "lit-ecdsa-sign" ->
         [type |-> "SignEcdsa", allowedPrefixes |-> <<input.message>>]
    [] action = "lit-uniswap-swap" ->
         [type |-> "UniswapSwap", maxAmount |-> input.amountIn,
          allowedTokens |-> <<input.tokenIn, input.tokenOut>>]

\* the policy a PKP handler builds from its input
PkpPolicy(action, input) ==
  CASE action = "lit-erc20-transfer" ->
         [type |-> "ERC20Transfer", erc20Decimals |-> Erc20Decimals,
          maxAmount |-> input.amount,
          allowedTokens |-> <<input.tokenAddress>>,
          allowedRecipients |-> <<input.recipientAddress>>]
    [] action = "lit-ecdsa-sign" ->
         [type |-> "SignEcdsa", allowedPrefixes |-> <<input.message>>]
    [] action = "lit-uniswap-swap" ->
         [type |-> "UniswapSwap", maxAmount |-> input.amountIn,
          allowedTokens |-> <<input.tokenIn, input.tokenOut>>]

PkpEncode(action, policy) ==
  CASE action = "lit-erc20-transfer" -> ERC20TransferPolicyEncode(policy)
    [] action = "lit-ecdsa-sign" -> SignEcdsaPolicyEncode(policy)
    [] action = "lit-uniswap-swap" -> UniswapSwapPolicyEncode(policy)

\* jsParams.params of a PKP handler
PkpParams(action, input, encodedPolicy) ==
  CASE action = "lit-erc20-transfer" ->
         [pkpEthAddress |-> input.pkpEthAddress, tokenIn |-> input.tokenAddress,
          recipientAddress |-> input.recipientAddress, amountIn |-> input.amount,
          chainId |-> input.chainId, rpcUrl |-> input.rpcUrl,
          encodedPolicy |-> encodedPolicy]
    [] action = "lit-ecdsa-sign" ->
         [pkpEthAddress |-> input.pkpEthAddress, message |-> input.message,
          encodedPolicy |-> encodedPolicy]
    [] action = "lit-uniswap-swap" ->
         [pkpEthAddress |-> input.pkpEthAddress, tokenIn |-> input.tokenIn,
          tokenOut |-> input.tokenOut, amountIn |-> input.amountIn,
          chainId |-> input.chainId, rpcUrl |-> input.rpcUrl,
          encodedPolicy |-> encodedPolicy]

\* executeJs issued a second time
IssueExecuteJsTwice(r, arg) ==
  IF r.client = Null
  THEN Throw(r, "null client", NullCall)
  ELSE Issue(Issue(r, "executeJs", Call("executeJs", r.client, arg)),
             "executeJs", Call("executeJs", r.client, arg))

\* client.executeJs({...}) on the handler's client
IssueExecuteJs(r, arg) ==
  IF r.client = Null
  THEN Throw(r, "null client", NullCall)
  ELSE Issue(r, "executeJs", Call("executeJs", r.client, arg))

\* the handler after const sessionSigs = await getSessionSigs(...)
AfterSessionSigs(r, finalConfig) ==
  CASE r.action = "lit-hello" ->
         IssueExecuteJs(r, [code |-> HELLO_LIT_CODE, ipfsId |-> "none",
                            sessionSigs |-> r.sessionSigs,
                            jsParams |-> HelloJsParams(r.input)])
    [] r.action = "lit-decrypt-env" ->
         Issue(r, "decryptToString",
               Call("decryptToString", r.client,
                    [accessControlConditions |->
                       IF HasMember(r.data, "accessControlConditions")
                       THEN Get(r.data, "accessControlConditions") ELSE <<>>,
                     ciphertext |->
                       IF HasMember(r.data, "ciphertext")
                       THEN Get(r.data, "ciphertext") ELSE Undef,
                     dataToEncryptHash |->
                       IF HasMember(r.data, "dataToEncryptHash")
                       THEN Get(r.data, "dataToEncryptHash") ELSE Undef,
                     sessionSigs |-> r.sessionSigs, chain |-> "ethereum"]))
    [] OTHER ->
         LET enc == PkpEncode(r.action, PkpPolicy(r.action, r.input)) IN
         IF enc.status = "throw"
         THEN Throw(r, "policy encode", enc.value)
         ELSE IssueExecuteJs(r, [code |-> "none",
                                 ipfsId |-> PkpIpfsCid(r.action, finalConfig),
                                 sessionSigs |-> r.sessionSigs,
                                 jsParams |-> [params |-> PkpParams(r.action, r.input, enc.value)]])

\* input.walletAddress || walletAddress
AuthorizedWallet(input, walletAddress) == OrElse(input.walletAddress, Str(walletAddress))

\* the accessControlConditions of lit-encrypt-env
AccessControlConditions(authorizedWallet) ==
  << [contractAddress |-> "", standardContractType |-> "", chain |-> "ethereum",
      method |-> "", parameters |-> <<":userAddress">>,
      returnValueTest |-> [comparator |-> "=", value |-> toLowerCase(authorizedWallet.s)]] >>

\* lit-encrypt-env after const walletAddress = await walletProvider.getAddress()
AfterAddressEncrypt(r) ==
  LET authorizedWallet == AuthorizedWallet(r.input, r.walletAddress) IN
  IF authorizedWallet.t # "string"
  THEN Throw(r, "toLowerCase", Err(<<"authorizedWallet.toLowerCase is not a function">>))
  ELSE LET acc == AccessControlConditions(authorizedWallet) IN
       Issue([r EXCEPT !.data = [kind |-> "env", envContent |-> r.data.envContent,
                                 authorizedWallet |-> authorizedWallet,
                                 accessControlConditions |-> acc]],
             "encryptString",
             Call("encryptString", r.client,
                  [accessControlConditions |-> acc, dataToEncrypt |-> r.data.envContent]))

\* the object lit-encrypt-env writes
EncryptedData(r, enc, finalConfig) ==
  << Member("version", TRUE, Str(<<"1.0.0">>)),
     Member("encryptedAt", TRUE, Str(<<"now">>)),
     Member("encryptedBy", TRUE, Str(r.walletAddress)),
     Member("accessControlConditions", TRUE, r.data.accessControlConditions),
     Member("ciphertext", TRUE, enc.ciphertext),
     Member("dataToEncryptHash", TRUE, enc.dataToEncryptHash),
     Member("network", finalConfig.litNetwork # "undefined", Str(<<finalConfig.litNetwork>>)) >>

IssueWriteFile(bld, r, content) ==
  Issue(r, "writeFile",
        Call("writeFile", Null, [path |-> WritePath(bld, r.action, r.input), content |-> content]))

\* the result string of a file action that succeeded
FileResult(bld, r) ==
  IF r.action = "lit-encrypt-env"
  THEN <<"Encrypted ">> \o ReadPath(bld, r.action, r.input).s \o <<" to ">>
       \o WritePath(bld, r.action, r.input).s \o <<". Access control set for ">>
       \o r.data.authorizedWallet.s
  ELSE <<"Decrypted ">> \o ReadPath(bld, r.action, r.input).s \o <<" to ">>
       \o WritePath(bld, r.action, r.input).s

\* the empty-file return with the message in the wrong field
EmptyFileFailureAsResult(bld, r) ==
  [success |-> FALSE,
   result |-> <<"File ">> \o ReadPath(bld, r.action, r.input).s \o <<" is empty or missing">>]

\* lit-encrypt-env on an input file that is empty
EmptyFileFailure(bld, r) ==
  Failure(<<"File ">> \o ReadPath(bld, r.action, r.input).s \o <<" is empty or missing">>)

(***************************************************************************)
(* The state machine.                                                      *)
(***************************************************************************)
Builds == {"ts", "js"}

InitFs == [f \in Files |-> CASE f = DotEnv -> Text(EnvText)
                             [] f = FileX -> Text(<<>>)
                             [] OTHER -> Missing]

Init ==
  /\ build \in Builds
  /\ providers = Providers
  /\ litNodeClient = Null
  /\ clients = <<>>
  /\ ctorCalls = 0
  /\ fs = InitFs
  /\ inv = [p \in Slots |-> Idle]
  /\ started = 0

SetModule(g) ==
  /\ litNodeClient' = g.litNodeClient
  /\ clients' = g.clients
  /\ ctorCalls' = g.ctorCalls

\* the inputs of the invocations that overlap: one accepted input per action
OverlapInputs(action) ==
  CASE action = "lit-hello" -> {[magicNumber |-> Num(7)]}
    [] action = "lit-encrypt-env" -> {EncryptInput(Undef, Undef, Undef)}
    [] action = "lit-decrypt-env" -> {DecryptInput(Undef, Undef)}
    [] action = "lit-erc20-transfer" ->
         {Erc20Input(Str(AddrA), Str(AddrA), Str(<<"1">>), Str(<<"1">>))}
    [] action = "lit-ecdsa-sign" -> {SignInput(Str(AddrA), Str(<<"h", "i">>))}
    [] action = "lit-uniswap-swap" -> {SwapInput(Str(AddrA), Str(AddrA), Str(<<"1">>))}

\* the providers whose handlers overlap: two different networks
OverlapProviders == {1, 2}

\* the handler of `action` of provider `prov` is invoked with `input` and
\* runs to its first await (or to its return)
Enter(p, prov, action, input) ==
  LET r == Entered(build, action, prov, input) IN
  /\ started' = started + 1
  /\ IF r.pc = "done" \/ action \in FileActions
     THEN /\ inv' = [inv EXCEPT ![p] = IF r.pc = "done" THEN r ELSE IssueReadFile(build, r)]
          /\ UNCHANGED <<litNodeClient, clients, ctorCalls>>
     ELSE \E o1 \in GetLitClient(ModuleState, providers[prov], build) :
            \E o2 \in SecondGet(r, o1, build) :
              /\ inv' = [inv EXCEPT ![p] = StartClient(r, o1, o2)]
              /\ SetModule(o2.g)
  /\ UNCHANGED <<build, providers, fs>>

\* an invocation that starts when no other is in flight
Invoke(p) ==
  /\ \A q \in Slots : inv[q].pc = "idle"
  /\ p = 1
  /\ started < MaxInvocations
  /\ \E prov \in DOMAIN Providers, action \in Actions :
       \E input \in Inputs(action) : Enter(p, prov, action, input)

\* an invocation that may start while others are in flight
InvokeOverlapping(p) ==
  /\ inv[p].pc = "idle"
  /\ \A q \in Slots : q < p => inv[q].pc # "idle"
  /\ started < MaxOverlapping
  /\ \E prov \in OverlapProviders, action \in Actions :
       \E input \in OverlapInputs(action) : Enter(p, prov, action, input)

\* await litNodeClient.connect() settles
ConnectReturns(p) ==
  LET r == inv[p] IN
  /\ r.pc = "connect"
  /\ \/ LET g1 == ConnectSettled(ModuleState, r.pending, TRUE) IN
        IF r.awaitIn = "handler"
        THEN \E o2 \in SecondGet(r, [kind |-> "return", g |-> g1,
                                     value |-> ReturnLitClient(g1), err |-> NonError], build) :
               /\ inv' = [inv EXCEPT ![p] = WithClient([r EXCEPT !.client = ReturnLitClient(g1)], o2)]
               /\ SetModule(o2.g)
        ELSE /\ inv' = [inv EXCEPT ![p] = IssueGetAddress([r EXCEPT !.sclient = ReturnLitClient(g1)])]
             /\ SetModule(g1)
     \/ \E e \in Thrown("connect") :
          /\ inv' = [inv EXCEPT ![p] = Throw(r, "connect", WrapConnectError(build, e))]
          /\ SetModule(ConnectSettled(ModuleState, r.pending, FALSE))
  /\ UNCHANGED <<build, providers, fs, started>>

\* await walletProvider.getAddress() settles
GetAddressReturns(p) ==
  LET r == inv[p]
      r1 == [r EXCEPT !.walletAddress = WalletAddr]
  IN
  /\ r.pc = "getAddress"
  /\ \/ inv' = [inv EXCEPT ![p] =
                  IF r.action = "lit-encrypt-env" THEN AfterAddressEncrypt(r1)
                  ELSE IF build = "ts"
                       THEN Issue(r1, "getNetwork", Call("getNetwork", Null, NoData))
                       ELSE IssueGetSessionSigs(r1)]
     \/ \E e \in Thrown("getAddress") :
          inv' = [inv EXCEPT ![p] = Throw(r, "getAddress", e)]
  /\ UNCHANGED <<build, providers, litNodeClient, clients, ctorCalls, fs, started>>

\* await walletProvider.getNetwork() settles (TypeScript build)
GetNetworkReturns(p) ==
  LET r == inv[p] IN
  /\ r.pc = "getNetwork"
  /\ \/ inv' = [inv EXCEPT ![p] = IssueGetSessionSigs(r)]
     \/ \E e \in Thrown("getNetwork") :
          inv' = [inv EXCEPT ![p] = Throw(r, "getNetwork", e)]
  /\ UNCHANGED <<build, providers, litNodeClient, clients, ctorCalls, fs, started>>

\* await client.getSessionSigs(...) settles
GetSessionSigsReturns(p) ==
  LET r == inv[p] IN
  /\ r.pc = "getSessionSigs"
  /\ \/ inv' = [inv EXCEPT ![p] =
                  AfterSessionSigs([r EXCEPT !.sessionSigs = "sessionSigs"], providers[r.provider])]
     \/ \E e \in Thrown("getSessionSigs") :
          inv' = [inv EXCEPT ![p] = Throw(r, "getSessionSigs", e)]
  /\ providers' = [providers EXCEPT ![r.provider] = ConfigRead(@)]
  /\ UNCHANGED <<build, litNodeClient, clients, ctorCalls, fs, started>>

\* await client.executeJs(...) settles
ExecuteJsReturns(p) ==
  LET r == inv[p] IN
  /\ r.pc = "executeJs"
  /\ \/ \E res \in ExecResults :
          inv' = [inv EXCEPT ![p] = Finish([r EXCEPT !.res = res], Success(ResultOf(res)))]
     \/ \E e \in Thrown("executeJs") :
          inv' = [inv EXCEPT ![p] = Throw(r, "executeJs", e)]
  /\ UNCHANGED <<build, providers, litNodeClient, clients, ctorCalls, fs, started>>

\* the handler of a file action after its file was read
AfterRead(r, content, o1, o2) ==
  IF r.action = "lit-encrypt-env"
  THEN IF FileText(content) = <<>>
       THEN Finish(r, EmptyFileFailure(build, r))
       ELSE StartClient([r EXCEPT !.data = [kind |-> "env", envContent |-> FileText(content)]], o1, o2)
  ELSE IF ~JSONparseOk(content)
       THEN Throw(r, "JSON.parse", Err(<<"Unexpected token">>))
       ELSE StartClient([r EXCEPT !.data = JSONparse(content)], o1, o2)

\* whether the handler calls getLitClient after reading this content
ReadContinues(r, content) ==
  IF r.action = "lit-encrypt-env" THEN FileText(content) # <<>>
  ELSE JSONparseOk(content)

\* await fs.readFile(path, "utf-8") settles
ReadFileReturns(p) ==
  LET r == inv[p]
      path == ReadPath(build, r.action, r.input)
  IN
  /\ r.pc = "readFile"
  /\ \/ /\ FileExists(fs, path)
        /\ LET content == fs[path.s] IN
           IF ReadContinues(r, content)
           THEN \E o1 \in GetLitClient(ModuleState, providers[r.provider], build) :
                  \E o2 \in SecondGet(r, o1, build) :
                    /\ inv' = [inv EXCEPT ![p] = AfterRead(r, content, o1, o2)]
                    /\ SetModule(o2.g)
           ELSE /\ inv' = [inv EXCEPT ![p] =
                             AfterRead(r, content,
                                       [kind |-> "return", g |-> ModuleState, value |-> Null, err |-> NonError],
                                       [kind |-> "return", g |-> ModuleState, value |-> Null, err |-> NonError])]
                /\ UNCHANGED <<litNodeClient, clients, ctorCalls>>
     \/ /\ \E e \in Thrown("readFile") :
             inv' = [inv EXCEPT ![p] = Throw(r, "readFile", e)]
        /\ UNCHANGED <<litNodeClient, clients, ctorCalls>>
  /\ UNCHANGED <<build, providers, fs, started>>

\* await encryptString(...) settles
EncryptStringReturns(p) ==
  LET r == inv[p] IN
  /\ r.pc = "encryptString"
  /\ \/ inv' = [inv EXCEPT ![p] =
                  IssueWriteFile(build, r,
                    JSONstringifyPretty(EncryptedData(r, SdkEncrypt(r.data.envContent),
                                                      providers[r.provider])))]
     \/ \E e \in Thrown("encryptString") :
          inv' = [inv EXCEPT ![p] = Throw(r, "encryptString", e)]
  /\ UNCHANGED <<build, providers, litNodeClient, clients, ctorCalls, fs, started>>

\* await decryptToString(...) settles
DecryptToStringReturns(p) ==
  LET r == inv[p]
      arg == r.calls[Len(r.calls)].arg
  IN
  /\ r.pc = "decryptToString"
  /\ \/ /\ SdkDecryptOk(arg.ciphertext)
        /\ inv' = [inv EXCEPT ![p] = IssueWriteFile(build, r, Text(SdkDecrypt(arg.ciphertext)))]
     \/ \E e \in Thrown("decryptToString") :
          inv' = [inv EXCEPT ![p] = Throw(r, "decryptToString", e)]
  /\ UNCHANGED <<build, providers, litNodeClient, clients, ctorCalls, fs, started>>

\* await fs.writeFile(path, content) settles
WriteFileReturns(p) ==
  LET r == inv[p]
      arg == r.calls[Len(r.calls)].arg
  IN
  /\ r.pc = "writeFile"
  /\ \/ /\ Writable(arg.path)
        /\ fs' = [fs EXCEPT ![arg.path.s] = arg.content]
        /\ inv' = [inv EXCEPT ![p] = Finish(r, Success(FileResult(build, r)))]
     \/ /\ \E e \in Thrown("writeFile") :
             inv' = [inv EXCEPT ![p] = Throw(r, "writeFile", e)]
        /\ UNCHANGED fs
  /\ UNCHANGED <<build, providers, litNodeClient, clients, ctorCalls, started>>

\* the caller takes the envelope the handler's promise resolved to
Return(p) ==
  /\ inv[p].pc = "done"
  /\ inv' = [inv EXCEPT ![p] = Idle]
  /\ UNCHANGED <<build, providers, litNodeClient, clients, ctorCalls, fs, started>>

Settle(p) ==
  \/ ConnectReturns(p)
  \/ GetAddressReturns(p)
  \/ GetNetworkReturns(p)
  \/ GetSessionSigsReturns(p)
  \/ ExecuteJsReturns(p)
  \/ ReadFileReturns(p)
  \/ EncryptStringReturns(p)
  \/ DecryptToStringReturns(p)
  \/ WriteFileReturns(p)
  \/ Return(p)

\* handler invocations one after the other
Next == \E p \in Slots : Invoke(p) \/ Settle(p)

Spec == Init /\ [][Next]_vars

\* inputs whose output path is the path the handler reads, for the actions
\* that read and write files, and one input of lit-hello
SamePathInputs(action) ==
  CASE action = "lit-hello" -> {[magicNumber |-> Num(7)]}
    [] action = "lit-encrypt-env" ->
         {EncryptInput(Str(DotEnv), Str(DotEnv), Undef),
          EncryptInput(Undef, Str(DotEnv), Undef),
          EncryptInput(Str(FileX), Str(FileX), Undef)}
    [] action = "lit-decrypt-env" ->
         {DecryptInput(Str(DotEnv), Str(DotEnv)),
          DecryptInput(Str(DotEnvEncrypted), Str(DotEnvEncrypted)),
          DecryptInput(Undef, Undef)}

\* an invocation with such an input that starts when no other is in flight
InvokeSamePath(p) ==
  /\ \A q \in Slots : inv[q].pc = "idle"
  /\ p = 1
  /\ started < MaxInvocations
  /\ \E prov \in DOMAIN Providers, action \in FileActions \cup {"lit-hello"} :
       \E input \in SamePathInputs(action) : Enter(p, prov, action, input)

NextSamePath == \E p \in Slots : InvokeSamePath(p) \/ Settle(p)

\* invocations that write the file they read, one after the other
SpecSamePath == Init /\ [][NextSamePath]_vars

\* handler invocations that overlap
NextOverlapping == \E p \in Slots : InvokeOverlapping(p) \/ Settle(p)

SpecOverlapping == Init /\ [][NextOverlapping]_vars

(***************************************************************************)
(* Properties.                                                             *)
(***************************************************************************)
\* a JavaScript string
IsJsString(x) == DOMAIN x = 1..Len(x) /\ \A i \in DOMAIN x : x[i] \in STRING

UniformEnvelope(e) ==
  \/ /\ DOMAIN e = {"success", "result"}
     /\ e.success = TRUE
     /\ IsJsString(e.result)
  \/ /\ DOMAIN e = {"success", "error"}
     /\ e.success = FALSE
     /\ IsJsString(e.error)

Returned(p) == inv[p].pc = "done"

\* C1: every handler invocation that returns, returns {success: true, result:
\* <string>} without an error field or {success: false, error: <string>}
\* without a result field, and nothing else.
C1_UniformEnvelope == \A p \in Slots : Returned(p) => UniformEnvelope(inv[p].ret)

\* a lit-decrypt-env invocation returned success (after a lit-encrypt-env did)
C1_Witness ==
  \E p \in Slots :
    Returned(p) /\ inv[p].action = "lit-decrypt-env" /\ inv[p].ret.success

\* C2: no handler invocation rejects; whichever step throws (an external
\* call, the constructor, JSON.parse, the policy encoding), the invocation
\* returns success=false with an error string.
C2_NoThrow ==
  \A p \in Slots :
    /\ inv[p].pc # "rejected"
    /\ inv[p].failed # "none" =>
         /\ Returned(p)
         /\ DOMAIN inv[p].ret = {"success", "error"}
         /\ inv[p].ret.success = FALSE
         /\ IsJsString(inv[p].ret.error)

\* decryptToString threw and the invocation returned
C2_Witness ==
  \E p \in Slots : Returned(p) /\ inv[p].failed = "decryptToString"

\* every client method call of an invocation is made on the shared handle
UsesSharedClient(p) ==
  /\ inv[p].client \in {Null, litNodeClient}
  /\ inv[p].sclient \in {Null, litNodeClient}
  /\ \A i \in 1..Len(inv[p].calls) : inv[p].calls[i].on \in {Null, litNodeClient}

\* C3 as claimed: in a sequence of non-overlapping invocations the
\* LitNodeClient constructor is invoked at most once.
C3_ConstructedOnce == ctorCalls <= 1

\* C3 as amended: in a sequence of non-overlapping invocations the
\* constructor is invoked only while the shared handle is null, never before
\* the first invocation and at most once per invocation; it returns a client
\* at most once, and every invocation uses that client.
C3_ConstructedWhileNull ==
  /\ [](/\ Len(clients) <= 1
        /\ litNodeClient = Len(clients)
        /\ ctorCalls <= started
        /\ \A p \in Slots : UsesSharedClient(p))
  /\ [][ctorCalls' # ctorCalls => litNodeClient = Null /\ ctorCalls' = ctorCalls + 1]_vars

\* the constructor threw once, was invoked again, and a later invocation
\* ran to success on the one client
C3_Witness ==
  /\ ctorCalls >= 2
  /\ Len(clients) = 1
  /\ \E p \in Slots : Returned(p) /\ inv[p].ret.success /\ inv[p].client = litNodeClient

\* an invocation holds a client while another is suspended in connect(): the
\* second made its first getLitClient call while the first was connecting
RacingFirstCalls(p, q) ==
  /\ p # q
  /\ inv[p].pc = "connect"
  /\ inv[q].client # Null

\* C4 as claimed: when two invocations make the first call to getLitClient
\* concurrently, the second starting while the first is suspended in
\* connect(), the client is constructed twice.
C4_ConstructedTwice ==
  \A p, q \in Slots : RacingFirstCalls(p, q) => Len(clients) >= 2

\* C4 as amended: two invocations that make the first call to getLitClient
\* concurrently never construct the client twice: the constructor is not
\* invoked while an invocation is suspended in connect(), and the second
\* invocation receives the client the first constructed, connect() pending.
C4_NoDoubleConstruction ==
  /\ [](/\ Len(clients) <= 1
        /\ \A p, q \in Slots :
             RacingFirstCalls(p, q) =>
               /\ inv[q].client = inv[p].pending
               /\ clients[inv[q].client].conn = "pending")
  /\ [][ctorCalls' # ctorCalls => \A p \in Slots : inv[p].pc # "connect"]_vars

\* the second invocation issued getSessionSigs on the client whose connect()
\* the first is still awaiting
C4_Witness ==
  \E p, q \in Slots :
    /\ RacingFirstCalls(p, q)
    /\ inv[q].pc = "getSessionSigs"
    /\ ctorCalls = 1

\* C5: once the shared client handle is set it is never cleared and never
\* replaced, whatever the outcome of a handler or of connect().
C5_HandleKept == [][litNodeClient # Null => litNodeClient' = litNodeClient]_vars

\* connect() failed on the shared client and a later invocation returned
\* success on it
C5_Witness ==
  /\ litNodeClient # Null
  /\ clients[litNodeClient].conn = "failed"
  /\ \E p \in Slots : Returned(p) /\ inv[p].ret.success /\ inv[p].client = litNodeClient

\* C6 as claimed: a handler invoked with an input its schema rejects makes
\* no external call and returns success=false.
C6_ValidatesFirst ==
  \A p \in Slots :
    (inv[p].pc # "idle" /\ ~SchemaAccepts(inv[p].action, inv[p].raw)) =>
      /\ inv[p].calls = <<>>
      /\ Returned(p) => inv[p].ret.success = FALSE

\* the external steps of a handler
ExternalOps ==
  {"new LitNodeClient", "connect", "getAddress", "getNetwork", "getSessionSigs",
   "executeJs", "readFile", "encryptString", "decryptToString", "writeFile"}

TimesCalled(p, op) ==
  Cardinality({i \in 1..Len(inv[p].calls) : inv[p].calls[i].op = op})

\* C7: within one invocation connect(), getSessionSigs, executeJs,
\* encryptString, decryptToString and writeFile are each invoked at most
\* once, and the first external failure ends the invocation with a failure
\* envelope: the call that failed is the last one the invocation made.
C7_NoRetry ==
  \A p \in Slots :
    /\ \A op \in {"connect", "getSessionSigs", "executeJs", "encryptString",
                  "decryptToString", "writeFile"} : TimesCalled(p, op) <= 1
    /\ inv[p].failed \in ExternalOps =>
         /\ Returned(p)
         /\ inv[p].ret.success = FALSE
         /\ inv[p].calls[Len(inv[p].calls)].op = inv[p].failed

\* the file write of lit-encrypt-env failed after every earlier call succeeded
C7_Witness ==
  \E p \in Slots :
    /\ Returned(p)
    /\ inv[p].action = "lit-encrypt-env"
    /\ inv[p].failed = "writeFile"
    /\ TimesCalled(p, "encryptString") = 1

\* the path parameter as supplied, or its documented default when omitted
Supplied(v, default) == IF v = Undef THEN Str(default) ELSE v

\* C8 as claimed: lit-encrypt-env and lit-decrypt-env read and write the
\* paths exactly as supplied and substitute the defaults only for an omitted
\* parameter.
C8_PathsAsSupplied ==
  \A p \in Slots :
    (inv[p].action \in FileActions /\ SchemaAccepts(inv[p].action, inv[p].raw)) =>
      \A i \in 1..Len(inv[p].calls) :
        LET c == inv[p].calls[i]
            enc == inv[p].action = "lit-encrypt-env"
        IN /\ c.op = "readFile" =>
                c.arg.path = IF enc THEN Supplied(inv[p].raw.envFilePath, DotEnv)
                             ELSE Supplied(inv[p].raw.encryptedFilePath, DotEnvEncrypted)
           /\ c.op = "writeFile" =>
                c.arg.path = IF enc THEN Supplied(inv[p].raw.outputPath, DotEnvEncrypted)
                             ELSE Supplied(inv[p].raw.outputPath, DotEnv)

\* C9 as claimed: lit-hello sends the caller's magicNumber unchanged for
\* every number the schema accepts, and 42 only when it is omitted.
C9_MagicNumberUnchanged ==
  \A p \in Slots :
    (inv[p].action = "lit-hello" /\ HelloLitSchema(inv[p].raw)) =>
      \A i \in 1..Len(inv[p].calls) :
        inv[p].calls[i].op = "executeJs" =>
          inv[p].calls[i].arg.jsParams.magicNumber =
            IF inv[p].raw.magicNumber = Undef THEN Num(42) ELSE inv[p].raw.magicNumber

HelloSucceeded(p) ==
  Returned(p) /\ inv[p].action = "lit-hello" /\ inv[p].ret.success

\* the one executeJs call of an invocation
ExecuteJsCall(p) ==
  inv[p].calls[CHOOSE i \in 1..Len(inv[p].calls) : inv[p].calls[i].op = "executeJs"]

\* the result lit-hello is to return for what executeJs resolved to
ExpectedHelloResult(res) ==
  IF res.response.t = "string" /\ Len(res.response.s) > 0
  THEN JSONstringifyString(res.response.s)
  ELSE JSONstringifyRes(res)

\* C10 as claimed: a lit-hello invocation whose external calls all succeed
\* has itself called connect() before executeJs.
C10_ConnectsItself ==
  \A p \in Slots :
    HelloSucceeded(p) =>
      \E i, j \in 1..Len(inv[p].calls) :
        /\ i < j
        /\ inv[p].calls[i].op = "connect"
        /\ inv[p].calls[j].op = "executeJs"

\* C10 as amended: a lit-hello invocation whose external calls all succeed
\* calls executeJs exactly once, with the inline HELLO_LIT_CODE and no ipfsId,
\* on a client on which connect() was called before (by this invocation or
\* by an earlier one), and returns success=true with the JSON text of the
\* response field, or of the whole result when the response is empty.
C10_HelloSuccess ==
  \A p \in Slots :
    /\ (inv[p].action = "lit-hello" /\ TimesCalled(p, "executeJs") >= 1) =>
         /\ ExecuteJsCall(p).on \in 1..Len(clients)
         /\ clients[ExecuteJsCall(p).on].conn # "new"
    /\ HelloSucceeded(p) =>
         /\ TimesCalled(p, "executeJs") = 1
         /\ ExecuteJsCall(p).arg.code = HELLO_LIT_CODE
         /\ ExecuteJsCall(p).arg.ipfsId = "none"
         /\ inv[p].ret.result = ExpectedHelloResult(inv[p].res)

\* a lit-hello invocation succeeded on a client an earlier invocation
\* constructed, with an empty response field
C10_Witness ==
  \E p \in Slots :
    /\ HelloSucceeded(p)
    /\ TimesCalled(p, "connect") = 0
    /\ inv[p].res.response = Str(<<>>)

EncryptSucceeded(p) ==
  Returned(p) /\ inv[p].action = "lit-encrypt-env" /\ inv[p].ret.success

\* the call of `op` an invocation made (when it made one)
TheCall(p, op) ==
  inv[p].calls[CHOOSE i \in 1..Len(inv[p].calls) : inv[p].calls[i].op = op]

\* the address lit-encrypt-env is to authorise: the walletAddress parameter
\* when supplied, otherwise the agent wallet's address
AuthorisedFor(raw) ==
  IF raw.walletAddress = Undef THEN Str(WalletAddr) ELSE raw.walletAddress

\* C11 as claimed: a lit-encrypt-env invocation on a non-empty file in which
\* every external call succeeds reads envFilePath exactly once as UTF-8,
\* writes exactly one file, at outputPath, and returns success=true with
\* "Encrypted <envFilePath> to <outputPath>. Access control set for
\* <authorized wallet>".
C11_EncryptSuccess ==
  \A p \in Slots :
    EncryptSucceeded(p) =>
      LET src == Supplied(inv[p].raw.envFilePath, DotEnv)
          dst == Supplied(inv[p].raw.outputPath, DotEnvEncrypted)
      IN /\ TimesCalled(p, "readFile") = 1
         /\ TheCall(p, "readFile").arg = [path |-> src, encoding |-> "utf-8"]
         /\ TimesCalled(p, "writeFile") = 1
         /\ TheCall(p, "writeFile").arg.path = dst
         /\ inv[p].ret.result =
              <<"Encrypted ">> \o src.s \o <<" to ">> \o dst.s
              \o <<". Access control set for ">> \o AuthorisedFor(inv[p].raw).s

\* C12 as claimed: the access-control condition lit-encrypt-env passes to
\* encryptString names exactly one address, the walletAddress parameter when
\* supplied and the agent wallet's address otherwise, lower-cased, and the
\* condition stored in the output file is the one used for encryption.
C12_AuthorisedAddress ==
  \A p \in Slots :
    (inv[p].action = "lit-encrypt-env" /\ TimesCalled(p, "encryptString") >= 1) =>
      LET acc == TheCall(p, "encryptString").arg.accessControlConditions IN
      /\ Len(acc) = 1
      /\ acc[1].returnValueTest.comparator = "="
      /\ acc[1].returnValueTest.value = toLowerCase(AuthorisedFor(inv[p].raw).s)
      /\ TimesCalled(p, "writeFile") >= 1 =>
           LET stored == TheCall(p, "writeFile").arg.content.fields IN
           /\ HasMember(stored, "accessControlConditions")
           /\ Get(stored, "accessControlConditions") = acc

\* the parts of the round trip that do not depend on where the plaintext is
\* written: lit-decrypt-env, while it has not returned, has passed to
\* decryptToString what the file it read stores, and writes the plaintext
\* decryptToString returned, which is the text the file is the encryption of
PassesWhatIsStored(p) ==
  LET stored == fs[TheCall(p, "readFile").arg.path.s].fields
      arg == TheCall(p, "decryptToString").arg
      orig == SdkDecrypt(Get(stored, "ciphertext"))
  IN /\ HasMember(stored, "ciphertext")
     /\ HasMember(stored, "dataToEncryptHash")
     /\ HasMember(stored, "accessControlConditions")
     /\ arg.ciphertext = Get(stored, "ciphertext")
     /\ arg.dataToEncryptHash = Get(stored, "dataToEncryptHash")
     /\ arg.accessControlConditions = Get(stored, "accessControlConditions")
     /\ SdkEncrypt(orig).ciphertext = Get(stored, "ciphertext")
     /\ SdkEncrypt(orig).dataToEncryptHash = Get(stored, "dataToEncryptHash")
     /\ TimesCalled(p, "writeFile") >= 1 =>
          TheCall(p, "writeFile").arg.content = Text(orig)

\* C13 as claimed: lit-decrypt-env applied to a file written by a successful
\* lit-encrypt-env passes to decryptToString exactly the ciphertext,
\* dataToEncryptHash and accessControlConditions the file stores and writes
\* the returned plaintext, the original .env content, unchanged to outputPath.
C13_RoundTrip ==
  \A p \in Slots :
    (/\ inv[p].action = "lit-decrypt-env"
     /\ inv[p].pc \in {"decryptToString", "writeFile"}) =>
      /\ PassesWhatIsStored(p)
      /\ TimesCalled(p, "writeFile") >= 1 =>
           TheCall(p, "writeFile").arg.path = Supplied(inv[p].raw.outputPath, DotEnv)

PkpActions == {"lit-erc20-transfer", "lit-ecdsa-sign", "lit-uniswap-swap"}

\* the litNetwork a provider was configured with, "datil-dev" when none
ConfiguredNetwork(prov) ==
  IF ProviderConfigs[prov].litNetwork \in {"absent", "undefined"}
  THEN "datil-dev"
  ELSE ProviderConfigs[prov].litNetwork

\* the type of each PKP action in IPFS_CIDS
TypeOf(action) ==
  CASE action = "lit-erc20-transfer" -> "erc20Transfer"
    [] action = "lit-ecdsa-sign" -> "ecdsaSign"
    [] action = "lit-uniswap-swap" -> "uniswapSwap"

\* C14: every executeJs call of lit-erc20-transfer, lit-ecdsa-sign and
\* lit-uniswap-swap passes as ipfsId the CID IPFS_CIDS lists for the
\* provider's configured litNetwork ("datil-dev" when none is configured) and
\* the action's type, never the CID of another network or action, and never
\* inline code.
C14_ConfiguredCid ==
  \A p \in Slots :
    inv[p].action \in PkpActions =>
      \A i \in 1..Len(inv[p].calls) :
        inv[p].calls[i].op = "executeJs" =>
          LET arg == inv[p].calls[i].arg IN
          /\ arg.ipfsId = IPFS_CIDS(ConfiguredNetwork(inv[p].provider), TypeOf(inv[p].action))
          /\ arg.code = "none"
          /\ \A n \in LitNetworks, t \in {"erc20Transfer", "ecdsaSign", "uniswapSwap"} :
               arg.ipfsId = IPFS_CIDS(n, t) =>
                 n = ConfiguredNetwork(inv[p].provider) /\ t = TypeOf(inv[p].action)

\* a provider configured for datil-test called executeJs on the shared client,
\* which another provider constructed for datil-dev
C14_Witness ==
  \E p \in Slots :
    /\ inv[p].action \in PkpActions
    /\ TimesCalled(p, "executeJs") = 1
    /\ ConfiguredNetwork(inv[p].provider) = "datil-test"
    /\ clients[TheCall(p, "executeJs").on].litNetwork = "datil-dev"

(***************************************************************************)
(* The class-based LitActionProvider the adapter was converted from.       *)
(***************************************************************************)
\* args: z.infer<typeof Schema>, the schema's output for the input
ClassArgs(action, input) == SchemaOutput(action, input)

\* the external calls a method of a new LitActionProvider makes, in order,
\* while every call succeeds
ClassCalls(action) ==
  CASE action = "lit-encrypt-env" ->
         <<"readFile", "new LitNodeClient", "connect", "getAddress",
           "encryptString", "writeFile">>
    [] action = "lit-decrypt-env" ->
         <<"readFile", "new LitNodeClient", "connect", "getAddress", "getNetwork",
           "getSessionSigs", "decryptToString", "writeFile">>
    [] OTHER ->
         <<"new LitNodeClient", "connect", "getAddress", "getNetwork",
           "getSessionSigs", "executeJs">>

\* fs.readFile(args.envFilePath, ...) / fs.readFile(args.encryptedFilePath, ...)
ClassReadPath(action, args) ==
  IF action = "lit-encrypt-env" THEN args.envFilePath ELSE args.encryptedFilePath

\* C15 as claimed, for the first invocation of a process (where the shared
\* client of the adapter and the client of a new class instance are both
\* still to be constructed): on a schema-accepted input the function-based
\* handler makes the external calls of the corresponding class method, in
\* the same order and on the same files.
C15_FaithfulConversion ==
  \A p \in Slots :
    (started = 1 /\ inv[p].pc # "idle" /\ SchemaAccepts(inv[p].action, inv[p].raw)) =>
      LET args == ClassArgs(inv[p].action, inv[p].raw)
          calls == inv[p].calls
      IN /\ Len(calls) <= Len(ClassCalls(inv[p].action))
         /\ \A i \in 1..Len(calls) :
              /\ calls[i].op = ClassCalls(inv[p].action)[i]
              /\ calls[i].op = "readFile" =>
                   calls[i].arg.path = ClassReadPath(inv[p].action, args)
              /\ calls[i].op = "writeFile" => calls[i].arg.path = args.outputPath

\* the actions that execute a Lit Action
ExecuteActions == {"lit-hello"} \cup PkpActions

\* the place of an external step in the order of a handler
Rank(op) ==
  CASE op = "new LitNodeClient" -> 1
    [] op = "connect" -> 2
    [] op = "getAddress" -> 3
    [] op = "getNetwork" -> 4
    [] op = "getSessionSigs" -> 5
    [] op = "executeJs" -> 6
    [] OTHER -> 0

\* one call was made before another in the same invocation
CalledBefore(p, a, b) ==
  \E i, j \in 1..Len(inv[p].calls) :
    i < j /\ inv[p].calls[i].op = a /\ inv[p].calls[j].op = b

DigitVal(c) ==
  CASE c = "0" -> 0 [] c = "1" -> 1 [] c = "2" -> 2 [] c = "3" -> 3 [] c = "4" -> 4
    [] c = "5" -> 5 [] c = "6" -> 6 [] c = "7" -> 7 [] c = "8" -> 8 [] c = "9" -> 9

\* a numeral with zeros in front, n digits long
PadLeft(s, n) == [i \in 1..n |-> IF i <= n - Len(s) THEN "0" ELSE s[i - (n - Len(s))]]

\* a <= b for decimal numerals of any length
NumeralLeq(a, b) ==
  LET n == IF Len(a) > Len(b) THEN Len(a) ELSE Len(b)
      x == PadLeft(a, n)
      y == PadLeft(b, n)
  IN \/ x = y
     \/ \E i \in 1..n :
          /\ DigitVal(x[i]) < DigitVal(y[i])
          /\ \A j \in 1..(i - 1) : x[j] = y[j]

\* a decimal amount in units of 10^-decimals: the digits of the amount with
\* the point taken out, followed by a zero for every fraction digit missing
InUnits(amount, decimals) ==
  LET digits == SelectSeq(amount, LAMBDA c : c # ".")
      fraction == Len(amount) - DotPos(amount)
  IN digits \o [i \in 1..(decimals - (IF fraction > 0 THEN fraction ELSE 0)) |-> "0"]

IsIn(x, xs) == \E i \in 1..Len(xs) : xs[i] = x

StartsWith(s, pre) == Len(pre) <= Len(s) /\ SubSeq(s, 1, Len(pre)) = pre

\* C17: the policy a PKP handler sends with executeJs authorises the request
\* it accompanies: for lit-erc20-transfer the token is in allowedTokens, the
\* recipient in allowedRecipients and the amount, in units of the policy's
\* erc20Decimals, does not exceed maxAmount; for lit-uniswap-swap tokenIn and
\* tokenOut are in allowedTokens and amountIn does not exceed maxAmount; for
\* lit-ecdsa-sign the message starts with an allowed prefix.
C17_PolicyAuthorisesRequest ==
  \A p \in Slots :
    (inv[p].action \in PkpActions /\ TimesCalled(p, "executeJs") >= 1) =>
      LET params == TheCall(p, "executeJs").arg.jsParams.params
          policy == params.encodedPolicy
      IN CASE inv[p].action = "lit-erc20-transfer" ->
                /\ IsIn(params.tokenIn, policy.allowedTokens)
                /\ IsIn(params.recipientAddress, policy.allowedRecipients)
                /\ NumeralLeq(InUnits(params.amountIn.s, policy.erc20Decimals), policy.maxAmount)
           [] inv[p].action = "lit-uniswap-swap" ->
                /\ IsIn(params.tokenIn, policy.allowedTokens)
                /\ IsIn(params.tokenOut, policy.allowedTokens)
                /\ NumeralLeq(params.amountIn.s, policy.maxAmount)
           [] inv[p].action = "lit-ecdsa-sign" ->
                \E i \in 1..Len(policy.allowedPrefixes) :
                  StartsWith(params.message.s, policy.allowedPrefixes[i].s)

\* lit-erc20-transfer reached executeJs with the fractional amount 1.5
C17_Witness ==
  \E p \in Slots :
    /\ inv[p].action = "lit-erc20-transfer"
    /\ TimesCalled(p, "executeJs") = 1
    /\ TheCall(p, "executeJs").arg.jsParams.params.amountIn = Str(<<"1", ".", "5">>)
    /\ Len(TheCall(p, "executeJs").arg.jsParams.params.encodedPolicy.maxAmount) = 19

\* C18: a handler invocation changes no provider's configuration and does
\* not change which build is loaded; lit-hello, lit-erc20-transfer,
\* lit-ecdsa-sign and lit-uniswap-swap never read or write the file system,
\* which only the file write of lit-encrypt-env or lit-decrypt-env changes.
C18_Frame ==
  /\ [](\A p \in Slots :
          inv[p].action \in ExecuteActions =>
            TimesCalled(p, "readFile") = 0 /\ TimesCalled(p, "writeFile") = 0)
  /\ [][/\ providers' = providers
        /\ build' = build
        /\ fs' # fs =>
             \E p \in Slots : inv[p].action \in FileActions /\ inv[p].pc = "writeFile"]_vars

\* a PKP handler of the provider configured with litNetwork undefined read
\* its configuration and reached executeJs after lit-encrypt-env wrote a file
C18_Witness ==
  \E p \in Slots :
    /\ inv[p].action \in PkpActions
    /\ inv[p].provider = 3
    /\ TimesCalled(p, "executeJs") = 1
    /\ fs # InitFs

(***************************************************************************)
(* The example provider: get-token-balance.                                *)
(***************************************************************************)
TokenBalanceInput(tokenAddress, address) ==
  [tokenAddress |-> tokenAddress, address |-> address]

\* the length the handler asks of an address
AddressLen == 42

\* "0x" and forty characters that are not hexadecimal digits
AddrNonHex == <<"0", "x">> \o Rep("g", AddressHexLen)

\* as long as an address, without the prefix
AddrNoPrefix == Rep("a", AddressLen)

TokenBalanceInputs ==
  {TokenBalanceInput(Str(t), Str(a)) :
     t \in {AddrA, AddrNonHex, AddrShort, AddrNoPrefix},
     a \in {AddrB, AddrNonHex, AddrShort}}

\* s.startsWith("0x") && s.length === 42
PassesAddressCheck(s) == StartsWith(s, <<"0", "x">>) /\ Len(s) = AddressLen

\* what a contract read or getPublicClient() may throw
ReadThrown == {Err(<<"execution reverted">>), NonError}

\* what balanceOf resolves to, as the numeral balance.toString() gives
Balances ==
  {<<"0">>,
   <<"1", "5">> \o Rep("0", 17),
   <<"2", "5">> \o Rep("0", 5),
   <<"1", "9", "9", "9", "9", "9", "9", "5">> \o Rep("0", 11)}

\* what decimals() resolves to
DecimalsRead == {0, 6, 18}

\* what symbol() resolves to
SymbolsRead == {<<"USDC">>}

\* let decimals = 18
DefaultDecimals == 18

\* let symbol = "TOKEN"
DefaultSymbol == <<"TOKEN">>

\* formatEther divides by 10^18
EtherDecimals == 18

\* toFixed(6)
FixedDigits == 6

DigitChar(v) == <<"0", "1", "2", "3", "4", "5", "6", "7", "8", "9">>[v + 1]

\* the numeral of n + 1: the last digit that is not 9 goes up by one and the
\* nines after it become zeros
Increment(s) ==
  LET n == Len(s)
      notNine == {i \in 1..n : s[i] # "9"}
      k == IF notNine = {} THEN 0 ELSE CHOOSE i \in notNine : \A j \in notNine : j <= i
  IN IF k = 0 THEN <<"1">> \o Rep("0", n)
     ELSE [i \in 1..n |-> IF i < k THEN s[i]
                          ELSE IF i = k THEN DigitChar(DigitVal(s[k]) + 1)
                          ELSE "0"]

\* the numeral of balance / 10^k rounded to the nearest integer, the half
\* upwards (the quotient is taken exactly; the code takes it in doubles)
Scaled(balance, k) ==
  IF k <= 0 THEN balance \o Rep("0", 0 - k)
  ELSE LET n == Len(balance)
           kept == IF n > k THEN SubSeq(balance, 1, n - k) ELSE <<"0">>
           up == n >= k /\ DigitVal(balance[n - k + 1]) >= 5
       IN IF up THEN Increment(kept) ELSE kept

\* x.toFixed(6) of the number whose millionths are `micro`
ToFixed(micro) ==
  LET n == IF Len(micro) > FixedDigits THEN Len(micro) ELSE FixedDigits + 1
      d == PadLeft(micro, n)
  IN StripZeros(SubSeq(d, 1, n - FixedDigits)) \o <<".">>
       \o SubSeq(d, n - FixedDigits + 1, n)

\* (Number(formatEther(balance)) / Math.pow(10, 18 - decimals)).toFixed(6)
\* (the one-element sets bind the balance and the scaled value once)
AdjustedBalance(balance, decimals) ==
  CHOOSE adjusted \in
    {ToFixed(micro) :
       micro \in {Scaled(b, EtherDecimals + (EtherDecimals - decimals) - FixedDigits) :
                    b \in {balance}}} : TRUE

TokenBalanceResult(balance, decimals, symbol, address) ==
  <<"Token Balance: ">> \o AdjustedBalance(balance, decimals) \o <<" ">> \o symbol
    \o <<" (">> \o balance \o <<" raw units) for address ">> \o address

\* the outer catch block
TokenBalanceCatch(e) ==
  Failure(<<"Failed to get token balance: ">> \o ErrorText(e)
          \o <<". ", "Make sure the token address is valid and the contract supports the ERC-20 standard.">>)

\* a throw that the handler's try block does not enclose
ThrowTokenBalanceUncaught(r, op, e) == [r EXCEPT !.pc = "rejected", !.failed = op]

ThrowTokenBalance(r, op, e) == Finish([r EXCEPT !.failed = op], TokenBalanceCatch(e))

\* publicClient.readContract({ address, abi, functionName, args })
ReadContract(address, functionName, args) ==
  Call("readContract", Null,
       [address |-> address, functionName |-> functionName, args |-> args])

\* the handler up to its first await, or to its return
EnterTokenBalance(input) ==
  LET r == [Idle EXCEPT !.action = "get-token-balance", !.raw = input, !.input = input]
      tokenAddress == input.tokenAddress.s
      address == input.address.s
      got == [r EXCEPT !.calls = Append(@, Call("getPublicClient", Null, NoData))]
  IN IF ~PassesAddressCheck(tokenAddress)
     THEN {Finish(r, Failure(<<"Invalid token address: ">> \o tokenAddress
                             \o <<". Must be a valid Ethereum address.">>))}
     ELSE IF ~PassesAddressCheck(address)
     THEN {Finish(r, Failure(<<"Invalid address: ">> \o address
                             \o <<". Must be a valid Ethereum address.">>))}
     ELSE {Issue(got, "balanceOf", ReadContract(tokenAddress, "balanceOf", <<address>>))}
          \cup {ThrowTokenBalance(got, "getPublicClient", e) : e \in ReadThrown}

InvokeTokenBalance(p) ==
  /\ \A q \in Slots : inv[q].pc = "idle"
  /\ p = 1
  /\ started < MaxInvocations
  /\ \E input \in TokenBalanceInputs :
       \E r \in EnterTokenBalance(input) : inv' = [inv EXCEPT ![p] = r]
  /\ started' = started + 1
  /\ UNCHANGED <<build, providers, litNodeClient, clients, ctorCalls, fs>>

\* the read of balanceOf settles
BalanceOfReturns(p) ==
  LET r == inv[p] IN
  /\ r.action = "get-token-balance"
  /\ r.pc = "balanceOf"
  /\ \/ \E balance \in Balances :
          inv' = [inv EXCEPT ![p] =
                    Issue([r EXCEPT !.data = [kind |-> "balance", balance |-> balance,
                                              decimals |-> DefaultDecimals,
                                              symbol |-> DefaultSymbol,
                                              decimalsRead |-> FALSE,
                                              symbolRead |-> FALSE]],
                          "decimals",
                          ReadContract(r.input.tokenAddress.s, "decimals", <<>>))]
     \/ \E e \in ReadThrown :
          inv' = [inv EXCEPT ![p] = ThrowTokenBalance(r, "balanceOf", e)]
  /\ UNCHANGED <<build, providers, litNodeClient, clients, ctorCalls, fs, started>>

\* the read of decimals() throws out of the handler's body
DecimalsUncaught(r, e) == ThrowTokenBalance(r, "decimals", e)

\* try { decimals = await ... } catch { }: the default stays, symbol() is read
DecimalsCaught(r, e) ==
  Issue(r, "symbol", ReadContract(r.input.tokenAddress.s, "symbol", <<>>))

\* the read of decimals() settles
DecimalsReturns(p) ==
  LET r == inv[p] IN
  /\ r.action = "get-token-balance"
  /\ r.pc = "decimals"
  /\ \/ \E d \in DecimalsRead :
          inv' = [inv EXCEPT ![p] =
                    Issue([r EXCEPT !.data.decimals = d, !.data.decimalsRead = TRUE],
                          "symbol",
                          ReadContract(r.input.tokenAddress.s, "symbol", <<>>))]
     \/ \E e \in ReadThrown : inv' = [inv EXCEPT ![p] = DecimalsCaught(r, e)]
  /\ UNCHANGED <<build, providers, litNodeClient, clients, ctorCalls, fs, started>>

\* lines 130-136: the result of the action
TokenBalanceDone(r) ==
  Finish(r, Success(TokenBalanceResult(r.data.balance, r.data.decimals,
                                       r.data.symbol, r.input.address.s)))

\* the read of symbol() settles
SymbolReturns(p) ==
  LET r == inv[p] IN
  /\ r.action = "get-token-balance"
  /\ r.pc = "symbol"
  /\ \/ \E s \in SymbolsRead :
          inv' = [inv EXCEPT ![p] =
                    TokenBalanceDone([r EXCEPT !.data.symbol = s, !.data.symbolRead = TRUE])]
     \/ \E e \in ReadThrown : inv' = [inv EXCEPT ![p] = TokenBalanceDone(r)]
  /\ UNCHANGED <<build, providers, litNodeClient, clients, ctorCalls, fs, started>>

SettleExample(p) ==
  \/ BalanceOfReturns(p)
  \/ DecimalsReturns(p)
  \/ SymbolReturns(p)
  \/ Return(p)

NextExample == \E p \in Slots : InvokeTokenBalance(p) \/ SettleExample(p)

\* invocations of get-token-balance, one after the other
SpecExample == Init /\ [][NextExample]_vars

\* the contract reads of an invocation, in order
ContractReads(p) == SelectSeq(inv[p].calls, LAMBDA c : c.op = "readContract")

TokenBalance(p) == inv[p].action = "get-token-balance"

\* C19: get-token-balance rejects every tokenAddress and every address that is
\* not "0x" followed by forty hexadecimal digits: it performs no contract
\* read and returns success = false with an "Invalid ..." error.
C19_RejectsInvalidAddresses ==
  \A p \in Slots :
    (/\ TokenBalance(p)
     /\ \/ ~MatchesAddress(inv[p].raw.tokenAddress.s)
        \/ ~MatchesAddress(inv[p].raw.address.s)) =>
      /\ ContractReads(p) = <<>>
      /\ Returned(p)
      /\ ~inv[p].ret.success
      /\ inv[p].ret.error[1] \in {"Invalid token address: ", "Invalid address: "}

\* C20: in get-token-balance a failed read of decimals() or symbol() never
\* fails the action: the handler goes on with decimals = 18 and symbol =
\* "TOKEN" and returns success = true; a failed read of balanceOf always ends
\* the action with success = false, and no contract read follows it.
C20_OptionalReads ==
  \A p \in Slots :
    TokenBalance(p) =>
      /\ inv[p].failed \notin {"decimals", "symbol"}
      /\ inv[p].data.kind = "balance" /\ ~inv[p].data.decimalsRead =>
           inv[p].data.decimals = 18
      /\ inv[p].data.kind = "balance" /\ ~inv[p].data.symbolRead =>
           inv[p].data.symbol = <<"TOKEN">>
      /\ Returned(p) /\ inv[p].data.kind = "balance" =>
           /\ Len(ContractReads(p)) = 3
           /\ inv[p].ret =
                Success(TokenBalanceResult(inv[p].data.balance, inv[p].data.decimals,
                                           inv[p].data.symbol, inv[p].raw.address.s))
      /\ inv[p].failed = "balanceOf" =>
           /\ Returned(p)
           /\ ~inv[p].ret.success
           /\ Len(ContractReads(p)) = 1
           /\ ContractReads(p)[1].arg.functionName = "balanceOf"

C20_Witness ==
  \E p \in Slots :
    /\ TokenBalance(p)
    /\ Returned(p)
    /\ inv[p].ret.success
    /\ Len(ContractReads(p)) = 3
    /\ ~inv[p].data.decimalsRead
    /\ ~inv[p].data.symbolRead
    /\ inv[p].data.balance # <<"0">>

\* the calls made on a Lit client that need it connected
ClientOps == {"getSessionSigs", "executeJs", "encryptString", "decryptToString"}

\* C21: in a sequence of handler invocations that do not overlap and in which
\* connect() may fail, every call of getSessionSigs, executeJs, encryptString
\* or decryptToString is made on a client whose connect() has completed
\* successfully.
C21_ConnectedBeforeUse ==
  \A p \in Slots :
    \A i \in 1..Len(inv[p].calls) :
      inv[p].calls[i].op \in ClientOps =>
        /\ inv[p].calls[i].on # Null
        /\ clients[inv[p].calls[i].on].conn = "connected"

\* C22: when handler invocations overlap and connect() always succeeds, no
\* invocation receives the shared client from getLitClient, or issues
\* getSessionSigs, executeJs, encryptString or decryptToString on it, before
\* the connect() the first invocation started has completed.
C22_NoUseBeforeConnected ==
  (\A h \in DOMAIN clients : clients[h].conn # "failed") =>
    \A p \in Slots :
      /\ inv[p].client # Null => clients[inv[p].client].conn = "connected"
      /\ inv[p].sclient # Null => clients[inv[p].sclient].conn = "connected"
      /\ \A i \in 1..Len(inv[p].calls) :
           inv[p].calls[i].op \in ClientOps =>
             clients[inv[p].calls[i].on].conn = "connected"

\* C23: with several providers of different litNetwork in one process, every
\* PKP handler executes an ipfsId of the network the client it calls
\* executeJs on was constructed for, and the network recorded in a file
\* written by lit-encrypt-env is the network of the client that encrypted it.
C23_NetworkConsistent ==
  \A p \in Slots :
    /\ inv[p].action \in PkpActions =>
         \A i \in 1..Len(inv[p].calls) :
           inv[p].calls[i].op = "executeJs" =>
             inv[p].calls[i].arg.ipfsId =
               IPFS_CIDS(clients[inv[p].calls[i].on].litNetwork, TypeOf(inv[p].action))
    /\ (inv[p].action = "lit-encrypt-env" /\ TimesCalled(p, "writeFile") >= 1) =>
         LET stored == TheCall(p, "writeFile").arg.content.fields IN
         /\ HasMember(stored, "network")
         /\ Get(stored, "network") =
              Str(<<clients[TheCall(p, "encryptString").on].litNetwork>>)

\* C24: policy encoding never rejects an input its action's schema accepts:
\* for every input accepted by LitErc20TransferSchema, LitEcdsaSignSchema or
\* LitUniswapSwapSchema (fractional amounts such as "1.5" and ".5" among
\* them), once the client and the session signatures are there the policy is
\* encoded and executeJs is called.
C24_EncodeAcceptsSchemaInputs ==
  \A p \in Slots :
    (/\ inv[p].action \in PkpActions
     /\ SchemaAccepts(inv[p].action, inv[p].raw)
     /\ inv[p].client # Null
     /\ inv[p].sessionSigs # "none") =>
      /\ inv[p].failed # "policy encode"
      /\ TimesCalled(p, "executeJs") >= 1

\* C25: lit-encrypt-env never modifies the file at envFilePath: whatever the
\* input, no step of the invocation changes the content of the file the
\* handler reads.
C25_SourceUnchanged ==
  [][\A p \in Slots :
       LET path == ReadPath(build, inv[p].action, inv[p].input) IN
       (inv[p].action = "lit-encrypt-env" /\ path.t = "string" /\ path.s \in DOMAIN fs) =>
         fs'[path.s] = fs[path.s]]_vars

\* C26: lit-encrypt-env and lit-decrypt-env write their output file only as
\* their last external step: writeFile is the last call of an invocation, an
\* invocation that failed at an earlier step has called no writeFile, and the
\* file system changes only in the step in which writeFile settles and the
\* invocation ends with success = true.
C26_WriteIsLastStep ==
  /\ [](\A p \in Slots :
          inv[p].action \in FileActions =>
            /\ \A i \in 1..Len(inv[p].calls) :
                 inv[p].calls[i].op = "writeFile" => i = Len(inv[p].calls)
            /\ (Returned(p) /\ ~inv[p].ret.success /\ inv[p].failed # "writeFile") =>
                 TimesCalled(p, "writeFile") = 0)
  /\ [][fs' # fs =>
          \E p \in Slots :
            /\ inv[p].action \in FileActions
            /\ inv[p].pc = "writeFile"
            /\ inv'[p].pc = "done"
            /\ inv'[p].ret.success]_vars

C26_Witness ==
  \E p \in Slots :
    /\ inv[p].action = "lit-decrypt-env"
    /\ Returned(p)
    /\ ~inv[p].ret.success
    /\ inv[p].failed = "decryptToString"
    /\ TimesCalled(p, "writeFile") = 0
    /\ fs # InitFs

\* raw / 10^decimals shown to six decimal places
AmountOf(raw, decimals) == ToFixed(Scaled(raw, decimals - FixedDigits))

\* C27: for every raw balance and every decimals value the token returns, the
\* amount get-token-balance reports is the raw balance divided by
\* 10^decimals, shown to six decimal places, and the raw units shown are the
\* balance balanceOf returned.
C27_AmountIsRawOverDecimals ==
  \A p \in Slots :
    (TokenBalance(p) /\ Returned(p) /\ inv[p].ret.success) =>
      inv[p].ret.result =
        <<"Token Balance: ">> \o AmountOf(inv[p].data.balance, inv[p].data.decimals)
          \o <<" ">> \o inv[p].data.symbol
          \o <<" (">> \o inv[p].data.balance
          \o <<" raw units) for address ">> \o inv[p].raw.address.s

(***************************************************************************)
(* Termination: every external call settles.                               *)
(***************************************************************************)
\* the call invocation p awaits resolves or rejects
CallSettles(p) ==
  \/ ConnectReturns(p)
  \/ GetAddressReturns(p)
  \/ GetNetworkReturns(p)
  \/ GetSessionSigsReturns(p)
  \/ ExecuteJsReturns(p)
  \/ ReadFileReturns(p)
  \/ EncryptStringReturns(p)
  \/ DecryptToStringReturns(p)
  \/ WriteFileReturns(p)
  \/ BalanceOfReturns(p)
  \/ DecimalsReturns(p)
  \/ SymbolReturns(p)

\* the invocations followed to their end
MaxSettling == 3

\* an invocation of a handler of either provider that starts when no other is
\* in flight
InvokeEither(p) ==
  /\ \A q \in Slots : inv[q].pc = "idle"
  /\ p = 1
  /\ started < MaxSettling
  /\ \/ \E prov \in OverlapProviders, action \in Actions :
          \E input \in OverlapInputs(action) : Enter(p, prov, action, input)
     \/ /\ \E input \in TokenBalanceInputs :
             \E r \in EnterTokenBalance(input) : inv' = [inv EXCEPT ![p] = r]
        /\ started' = started + 1
        /\ UNCHANGED <<build, providers, litNodeClient, clients, ctorCalls, fs>>

\* invocations of the handlers of both providers, one after the other
NextEither == \E p \in Slots : InvokeEither(p) \/ CallSettles(p) \/ Return(p)

\* every external call eventually resolves or rejects
SpecSettling ==
  Init /\ [][NextEither]_vars /\ \A p \in Slots : WF_vars(CallSettles(p))

\* C28: every handler invocation eventually returns an envelope, provided
\* every external call it makes eventually resolves or rejects.
C28_Terminates ==
  \A p \in Slots : (inv[p].pc # "idle") ~> (inv[p].pc = "done")

C28_Witness ==
  \E p \in Slots :
    /\ inv[p].action = "lit-decrypt-env"
    /\ Returned(p)
    /\ inv[p].ret.success
    /\ TimesCalled(p, "getSessionSigs") = 1
    /\ TimesCalled(p, "writeFile") = 1
====
